---- MODULE Spec2Model ----
(***************************************************************************)
(* A model of the object codec of iotapkg: the type selectors, the         *)
(* Ed25519 signature and the unsigned transaction (de)serializers and the  *)
(* array-of-objects decoder with its lexical order rule.                    *)
(*                                                                         *)
(* A caller holds an entity (ent), a byte buffer (buf, a Go slice: backing *)
(* array plus length), the receiver of the last Deserialize (recv) and the *)
(* values the last call returned (ret).  A runtime panic of the Go code is *)
(* the result field panic = TRUE.  Errors are the names of the sentinel    *)
(* errors they wrap ("nil" for no error).                                  *)
(***************************************************************************)
EXTENDS Integers, Sequences, FiniteSets, TLC

VARIABLES ent, buf, recv, ret, origin

vars == <<ent, buf, recv, ret, origin>>

----------------------------------------------------------------------------
(* Bounds of the model.                                                    *)

\* A transaction holds at most MaxElems inputs and outputs together.
MaxElems == 2
\* A payload serializes to 1..MaxPayload bytes.
MaxPayload == 1
\* Spare capacity (zero bytes) behind the length of a caller's buffer: 0 or MaxSlack.
MaxSlack == 9

----------------------------------------------------------------------------
(* Program constants.                                                      *)

OneByte == 1
PublicKeySize == 32
SignatureSize == 64
TransactionIDLength == 32
MaxVarintLen64 == 10
UInt16ByteSize == 2
UInt64ByteSize == 8

TransactionUnsigned == 0
SignatureWOTS == 0
SignatureEd25519 == 1
InputUTXO == 0
OutputSigLockedSingleDeposit == 0
AddressEd25519 == 1

Ed25519SignatureSerializedBytesSize == OneByte + PublicKeySize + SignatureSize
Ed25519AddressSerializedBytesSize == OneByte + PublicKeySize
Ed25519AddressBytesLength == PublicKeySize

NoErr == "nil"
ErrInvalidBytes == "ErrInvalidBytes"
ErrUnknownInputType == "ErrUnknownInputType"
ErrUnknownOutputType == "ErrUnknownOutputType"
ErrUnknownTransactionType == "ErrUnknownTransactionType"
ErrUnknownSignatureType == "ErrUnknownSignatureType"
ErrDeserializationDataTooSmall == "ErrDeserializationDataTooSmall"
ErrVarintOverflow == "ErrVarintOverflow"
ErrInputsOrderViolatesLexicalOrder == "ErrInputsOrderViolatesLexicalOrder"
ErrOutputsOrderViolatesLexicalOrder == "ErrOutputsOrderViolatesLexicalOrder"
ErrInputUTXORefsNotUnique == "ErrInputUTXORefsNotUnique"
ErrOutputAddrNotUnique == "ErrOutputAddrNotUnique"
ErrArrayMinBound == "ErrArrayMinBound"
ErrArrayMaxBound == "ErrArrayMaxBound"
ErrPayloadSerialize == "ErrPayloadSerialize"

----------------------------------------------------------------------------
(* Go byte slices: arr is the backing array from the slice's first byte on *)
(* (its length is the capacity), len the slice's length.                   *)

\* F applied to the value v of an intermediate result.
Bind(v, F(_)) == F(v)

Fill(n, v) == [i \in 1..n |-> v]

\* Go's copy(dst, src) into a fixed array dst: min(len) leading bytes replaced.
Copy(dst, src) == [i \in 1..Len(dst) |-> IF i <= Len(src) THEN src[i] ELSE dst[i]]

MkSlice(bytes, slack) == [arr |-> bytes \o Fill(slack, 0), len |-> Len(bytes)]
NilSlice == [arr |-> <<>>, len |-> 0]

Cap(s) == Len(s.arr)
Bytes(s) == SubSeq(s.arr, 1, s.len)

\* s[i:j] is legal iff 0 <= i <= j <= cap(s); s[i:] is s[i:len(s)].
CanSlice(s, i, j) == 0 <= i /\ i <= j /\ j <= Cap(s)
Reslice(s, i, j) == [arr |-> SubSeq(s.arr, i + 1, Len(s.arr)), len |-> j - i]

\* bytes.Compare: -1, 0, +1.
RECURSIVE CompareFrom(_, _, _)
CompareFrom(a, b, i) ==
    IF i > Len(a) /\ i > Len(b) THEN 0
    ELSE IF i > Len(a) THEN -1
    ELSE IF i > Len(b) THEN 1
    ELSE IF a[i] < b[i] THEN -1
    ELSE IF a[i] > b[i] THEN 1
    ELSE CompareFrom(a, b, i + 1)

BytesCompare(a, b) == CompareFrom(a, b, 1)

----------------------------------------------------------------------------
(* Varint codec.                                                           *)

\* binary.PutUvarint: base-128, least significant group first.
RECURSIVE PutUvarint(_)
PutUvarint(x) ==
    IF x < 128 THEN <<x>> ELSE <<128 + (x % 128)>> \o PutUvarint(x \div 128)

RECURSIVE Pow128(_)
Pow128(k) == IF k = 0 THEN 1 ELSE 128 * Pow128(k - 1)

\* Decoding from byte i (1-based) of bytes: value, bytes read, error.
RECURSIVE UvarintFrom(_, _, _)
UvarintFrom(bytes, i, acc) ==
    IF i > Len(bytes)
    THEN [v |-> 0, n |-> 0, err |-> ErrDeserializationDataTooSmall]
    ELSE IF i > MaxVarintLen64
    THEN [v |-> 0, n |-> 0, err |-> ErrVarintOverflow]
    ELSE IF bytes[i] < 128
    THEN [v |-> acc + bytes[i] * Pow128(i - 1), n |-> i, err |-> NoErr]
    ELSE UvarintFrom(bytes, i + 1, acc + (bytes[i] - 128) * Pow128(i - 1))

\* Uvarint(data []byte) (uint64, int, error)
Uvarint(data) == UvarintFrom(Bytes(data), 1, 0)

\* ReadUvarint(r io.ByteReader) (uint64, int, error) over a bytes.Reader of data.
ReadUvarint(data) == UvarintFrom(Bytes(data), 1, 0)

----------------------------------------------------------------------------
(* error.go: byte length checks.                                           *)

checkExactByteLength(exact, length) ==
    IF length # exact THEN ErrInvalidBytes ELSE NoErr

checkMinByteLength(min, length) ==
    IF length < min THEN ErrInvalidBytes ELSE NoErr

checkMaxByteLength(max, length) ==
    IF length > max THEN ErrInvalidBytes ELSE NoErr

checkByteLengthRange(min, max, length) ==
    IF checkMinByteLength(min, length) # NoErr THEN checkMinByteLength(min, length)
    ELSE IF checkMaxByteLength(max, length) # NoErr THEN checkMaxByteLength(max, length)
    ELSE NoErr

\* checkType(data, shouldType): the leading type byte must be shouldType.
checkType(data, shouldType) ==
    IF data.len = 0 THEN ErrDeserializationDataTooSmall
    ELSE IF data.arr[1] # shouldType THEN ErrInvalidBytes
    ELSE NoErr

----------------------------------------------------------------------------
(* Entities.                                                               *)

Nil == [kind |-> "nil"]

EmptyEd25519Signature ==
    [kind |-> "Ed25519Signature",
     PublicKey |-> Fill(PublicKeySize, 0), Signature |-> Fill(SignatureSize, 0)]

EmptyWOTSSignature == [kind |-> "WOTSSignature"]

EmptyUnsignedTransaction ==
    [kind |-> "UnsignedTransaction", Inputs |-> <<>>, Outputs |-> <<>>, Payload |-> Nil]

EmptyUTXOInput ==
    [kind |-> "UTXOInput",
     TransactionID |-> Fill(TransactionIDLength, 0), TransactionOutputIndex |-> 0]

EmptySigLockedSingleDeposit ==
    [kind |-> "SigLockedSingleDeposit",
     Address |-> Fill(Ed25519AddressBytesLength, 0), Amount |-> 0]

\* What a call returns: n bytes consumed, err, the serialized data, the instance a
\* selector returns, and whether the call panicked instead of returning.
\* What the last call was and what it returned: the operation, its skipValidation
\* flag, a further argument (a type byte, an ArrayRules value), n bytes consumed, err,
\* the serialized data, the instance a selector returned, and whether the call
\* panicked instead of returning.
Result(op, skip, arg, n, err, data, inst, panic) ==
    [op |-> op, skip |-> skip, arg |-> arg, n |-> n, err |-> err, data |-> data,
     inst |-> inst, panic |-> panic]

NoResult == Result("none", FALSE, Nil, 0, NoErr, NilSlice, Nil, FALSE)

----------------------------------------------------------------------------
(* signature.go                                                            *)

\* What a Deserialize returns, and the caller's receiver after the call.
Decoded(n, err, rcv) == [n |-> n, err |-> err, recv |-> rcv, panic |-> FALSE]
DecodePanic(rcv) == [n |-> 0, err |-> NoErr, recv |-> rcv, panic |-> TRUE]

\* What a Serialize returns.
Encoded(data, err) == [data |-> data, err |-> err, panic |-> FALSE]
EncodePanic == [data |-> NilSlice, err |-> NoErr, panic |-> TRUE]

\* What a selector returns.
Selected(inst, err) == [inst |-> inst, err |-> err, panic |-> FALSE]

\* A selector whose default case falls back to a variant.
SignatureSelectorDefaulting(typeByte) ==
    IF typeByte = SignatureWOTS THEN Selected(EmptyWOTSSignature, NoErr)
    ELSE Selected(EmptyEd25519Signature, NoErr)

SignatureSelector(typeByte) ==
    CASE typeByte = SignatureWOTS -> Selected(EmptyWOTSSignature, NoErr)
      [] typeByte = SignatureEd25519 -> Selected(EmptyEd25519Signature, NoErr)
      [] OTHER -> Selected(Nil, ErrUnknownSignatureType)

\* panic("implement me")
WOTSSignatureSerialize(w) == EncodePanic

\* panic("implement me")
WOTSSignatureDeserialize(w, data) == DecodePanic(w)

\* A method with a value receiver works on its own copy (local): the caller's value
\* (callers) is what the caller still holds after the call.
ValueReceiver(callers, local) == callers

\* func (e Ed25519Signature) Deserialize(data []byte) (int, error): e is the
\* method's own copy of the caller's value, so the caller's value stays as it was.
Ed25519SignatureDeserialize(e, data) ==
    IF ~CanSlice(data, OneByte, data.len) THEN DecodePanic(e)
    ELSE
      LET d == Reslice(data, OneByte, data.len)
          err == checkExactByteLength(Ed25519SignatureSerializedBytesSize, d.len)
          local == [e EXCEPT
                      !.PublicKey = Copy(@, Bytes(Reslice(d, 0, PublicKeySize))),
                      !.Signature = Copy(@, Bytes(Reslice(d, PublicKeySize, d.len)))]
      IN IF err # NoErr THEN Decoded(0, err, e)
         ELSE Decoded(Ed25519AddressSerializedBytesSize, NoErr, ValueReceiver(e, local))

\* func (e Ed25519Signature) Serialize() ([]byte, error)
Ed25519SignatureSerialize(e) ==
    LET b0 == Fill(Ed25519AddressSerializedBytesSize, 0)
        b1 == [b0 EXCEPT ![1] = SignatureEd25519]
        b2 == SubSeq(b1, 1, OneByte)
              \o Copy(SubSeq(b1, OneByte + 1, Len(b1)), e.PublicKey)
        b3 == SubSeq(b2, 1, OneByte + PublicKeySize)
              \o Copy(SubSeq(b2, OneByte + PublicKeySize + 1, Len(b2)), e.Signature)
    IN Encoded(MkSlice(b3, 0), NoErr)

----------------------------------------------------------------------------
(* Inputs, outputs and their selectors.                                    *)

RECURSIVE LittleEndianPut(_, _)
LittleEndianPut(x, width) ==
    IF width = 0 THEN <<>> ELSE <<x % 256>> \o LittleEndianPut(x \div 256, width - 1)

RECURSIVE LittleEndianFrom(_, _)
LittleEndianFrom(bytes, i) ==
    IF i > Len(bytes) THEN 0 ELSE bytes[i] + 256 * LittleEndianFrom(bytes, i + 1)

LittleEndianUint(bytes) == LittleEndianFrom(bytes, 1)

UTXOInputSize == OneByte + TransactionIDLength + UInt16ByteSize
SigLockedSingleDepositSize == OneByte + Ed25519AddressSerializedBytesSize + UInt64ByteSize

\* [type:1][txid:32][outputIndex:2]
UTXOInputSerialize(u) ==
    Encoded(MkSlice(<<InputUTXO>> \o u.TransactionID
                    \o LittleEndianPut(u.TransactionOutputIndex, UInt16ByteSize), 0),
            NoErr)

UTXOInputDeserialize(u, data, skip) ==
    IF checkMinByteLength(UTXOInputSize, data.len) # NoErr
    THEN Decoded(0, ErrInvalidBytes, u)
    ELSE IF ~skip /\ checkType(data, InputUTXO) # NoErr
    THEN Decoded(0, checkType(data, InputUTXO), u)
    ELSE Decoded(UTXOInputSize, NoErr,
                 [u EXCEPT
                    !.TransactionID =
                        SubSeq(data.arr, OneByte + 1, OneByte + TransactionIDLength),
                    !.TransactionOutputIndex =
                        LittleEndianUint(SubSeq(data.arr, OneByte + TransactionIDLength + 1,
                                                UTXOInputSize))])

\* [type:1][Address = [type:1][pubkey:32]][amount:8]
SigLockedSingleDepositSerialize(s) ==
    Encoded(MkSlice(<<OutputSigLockedSingleDeposit>> \o <<AddressEd25519>> \o s.Address
                    \o LittleEndianPut(s.Amount, UInt64ByteSize), 0),
            NoErr)

SigLockedSingleDepositDeserialize(s, data, skip) ==
    IF checkMinByteLength(SigLockedSingleDepositSize, data.len) # NoErr
    THEN Decoded(0, ErrInvalidBytes, s)
    ELSE IF ~skip /\ checkType(data, OutputSigLockedSingleDeposit) # NoErr
    THEN Decoded(0, checkType(data, OutputSigLockedSingleDeposit), s)
    ELSE IF ~skip /\ checkType(Reslice(data, OneByte, data.len), AddressEd25519) # NoErr
    THEN Decoded(0, checkType(Reslice(data, OneByte, data.len), AddressEd25519), s)
    ELSE Decoded(SigLockedSingleDepositSize, NoErr,
                 [s EXCEPT
                    !.Address =
                        SubSeq(data.arr, 2 * OneByte + 1,
                               OneByte + Ed25519AddressSerializedBytesSize),
                    !.Amount =
                        LittleEndianUint(SubSeq(data.arr,
                                                OneByte + Ed25519AddressSerializedBytesSize + 1,
                                                SigLockedSingleDepositSize))])

InputSelector(ty) ==
    IF ty = InputUTXO THEN Selected(EmptyUTXOInput, NoErr)
    ELSE Selected(Nil, ErrUnknownInputType)

OutputSelector(ty) ==
    IF ty = OutputSigLockedSingleDeposit THEN Selected(EmptySigLockedSingleDeposit, NoErr)
    ELSE Selected(Nil, ErrUnknownOutputType)

\* serSel(ty) for the selector function passed by name.
CallSelector(serSel, ty) ==
    IF serSel = "InputSelector" THEN InputSelector(ty) ELSE OutputSelector(ty)

\* seri.Deserialize(data, mode) and seri.Serialize(mode), by the dynamic type of seri.
SeriDeserialize(seri, data, skip) ==
    IF seri.kind = "UTXOInput" THEN UTXOInputDeserialize(seri, data, skip)
    ELSE SigLockedSingleDepositDeserialize(seri, data, skip)

SeriSerialize(seri, skip) ==
    IF seri.kind = "UTXOInput" THEN UTXOInputSerialize(seri)
    ELSE SigLockedSingleDepositSerialize(seri)

----------------------------------------------------------------------------
(* serializable.go                                                         *)

\* An ArrayRules value; isNil stands for a nil *ArrayRules.
ArrayRules(min, max, lexical, lexicalErr) ==
    [isNil |-> FALSE, Min |-> min, Max |-> max,
     MinErr |-> ErrArrayMinBound, MaxErr |-> ErrArrayMaxBound,
     ElementBytesLexicalOrder |-> lexical, ElementBytesLexicalOrderErr |-> lexicalErr]

NilArrayRules == [ArrayRules(0, 0, FALSE, NoErr) EXCEPT !.isNil = TRUE]

\* func (ar *ArrayRules) CheckBounds(count uint64) error
CheckBounds(ar, count) ==
    IF ar.Min # 0 /\ count < ar.Min THEN ar.MinErr
    ELSE IF ar.Max # 0 /\ count > ar.Max THEN ar.MaxErr
    ELSE NoErr

\* The state a LexicalOrderValidator closure keeps: prev (nil at first) and prevIndex.
LexicalOrderValidator(ar) == [prevNil |-> TRUE, prev |-> <<>>, prevIndex |-> 0]

\* A comparison that takes the ascending pairs for the violations.
OrderViolatedInverted(prev, next) == BytesCompare(prev, next) < 0

\* A comparison that rejects ties as well.
OrderViolatedOnTies(prev, next) == BytesCompare(prev, next) >= 0

\* case bytes.Compare(prev, next) > 0
OrderViolated(prev, next) == BytesCompare(prev, next) > 0

\* One call of the LexicalOrderFunc: the error returned and the closure's state after.
LexicalOrderFunc(ar, st, index, next) ==
    IF st.prevNil
    THEN [err |-> NoErr, st |-> [prevNil |-> FALSE, prev |-> next, prevIndex |-> index]]
    ELSE IF OrderViolated(st.prev, next)
    THEN [err |-> ar.ElementBytesLexicalOrderErr, st |-> st]
    ELSE [err |-> NoErr, st |-> [prevNil |-> FALSE, prev |-> next, prevIndex |-> index]]

\* What DeserializeObject and DeserializeArrayOfObjects return.
Objects(seris, n, err) == [seris |-> seris, n |-> n, err |-> err, panic |-> FALSE]
ObjectsPanic == [seris |-> <<>>, n |-> 0, err |-> NoErr, panic |-> TRUE]

\* func DeserializeObject(data, deSeriMode, serSel) (Serializable, int, error)
DeserializeObject(data, skip, serSel) ==
    Bind(Uvarint(data), LAMBDA ty :
    IF ty.err # NoErr THEN Objects(<<>>, 0, ty.err) ELSE
    Bind(CallSelector(serSel, ty.v), LAMBDA sel :
    IF sel.err # NoErr THEN Objects(<<>>, 0, sel.err) ELSE
    Bind(SeriDeserialize(sel.inst, data, skip), LAMBDA dec :
    IF dec.panic THEN ObjectsPanic
    ELSE IF dec.err # NoErr THEN Objects(<<>>, 0, dec.err)
    ELSE Objects(<<dec.recv>>, dec.n, NoErr))))

\* The loop of DeserializeArrayOfObjects from element i on; data is already advanced
\* to the objects, lex is the lexical order closure's state (nil without the rule).
RECURSIVE ArrayLoop(_, _, _, _, _, _, _, _, _)
ArrayLoop(data, skip, serSel, ar, seriCount, i, offset, seris, lex) ==
    IF i >= seriCount THEN Objects(seris, offset, NoErr)
    ELSE IF ~CanSlice(data, offset, data.len) THEN ObjectsPanic
    ELSE
    Bind(DeserializeObject(Reslice(data, offset, data.len), skip, serSel), LAMBDA obj :
    IF obj.panic THEN ObjectsPanic
    ELSE IF obj.err # NoErr THEN Objects(<<>>, 0, obj.err)
    ELSE IF ar.isNil \/ ~ar.ElementBytesLexicalOrder
    THEN ArrayLoop(data, skip, serSel, ar, seriCount, i + 1, offset + obj.n,
                   seris \o obj.seris, lex)
    ELSE IF ~CanSlice(data, offset, offset + obj.n) THEN ObjectsPanic
    ELSE
    Bind(LexicalOrderFunc(ar, lex, i, Bytes(Reslice(data, offset, offset + obj.n))),
         LAMBDA chk :
    IF chk.err # NoErr THEN Objects(<<>>, 0, chk.err)
    ELSE ArrayLoop(data, skip, serSel, ar, seriCount, i + 1, offset + obj.n,
                   seris \o obj.seris, chk.st)))

\* func DeserializeArrayOfObjects(data, deSeriMode, serSel, arrayRules)
\*     (Serializables, int, error)
DeserializeArrayOfObjects(data, skip, serSel, arrayRules) ==
    Bind(Uvarint(data), LAMBDA cnt :
    IF cnt.err # NoErr THEN Objects(<<>>, 0, cnt.err)
    ELSE IF ~arrayRules.isNil /\ CheckBounds(arrayRules, cnt.v) # NoErr
    THEN Objects(<<>>, 0, CheckBounds(arrayRules, cnt.v))
    ELSE IF ~CanSlice(data, cnt.n, data.len) THEN ObjectsPanic
    ELSE
    Bind(ArrayLoop(Reslice(data, cnt.n, data.len), skip, serSel, arrayRules,
                   cnt.v, 0, 0, <<>>, LexicalOrderValidator(arrayRules)),
         LAMBDA loop :
    IF loop.panic THEN ObjectsPanic
    ELSE IF loop.err # NoErr THEN Objects(<<>>, 0, loop.err)
    ELSE Objects(loop.seris, cnt.n + loop.n, NoErr)))

----------------------------------------------------------------------------
(* Validators and the array rules of a transaction's inputs and outputs.   *)

inputsArrayBound == ArrayRules(0, 0, TRUE, ErrInputsOrderViolatesLexicalOrder)
outputsArrayBound == ArrayRules(0, 0, TRUE, ErrOutputsOrderViolatesLexicalOrder)

\* The key of an input: transaction id and output index.
UTXORefKey(input) == <<input.TransactionID, input.TransactionOutputIndex>>

InputsUTXORefsUniqueValidator(inputs) ==
    IF \E i, j \in 1..Len(inputs) : i < j /\ UTXORefKey(inputs[i]) = UTXORefKey(inputs[j])
    THEN ErrInputUTXORefsNotUnique ELSE NoErr

OutputsAddrUniqueValidator(outputs) ==
    IF \E i, j \in 1..Len(outputs) : i < j /\ outputs[i].Address = outputs[j].Address
    THEN ErrOutputAddrNotUnique ELSE NoErr

\* ValidateInputs(inputs, InputsUTXORefsUniqueValidator())
ValidateInputs(inputs) == InputsUTXORefsUniqueValidator(inputs)

\* ValidateOutputs(outputs, OutputsAddrUniqueValidator())
ValidateOutputs(outputs) == OutputsAddrUniqueValidator(outputs)

----------------------------------------------------------------------------
(* error.go: the unsigned transaction.                                     *)

TransactionSelector(typeByte) ==
    IF typeByte = TransactionUnsigned THEN Selected(EmptyUnsignedTransaction, NoErr)
    ELSE Selected(Nil, ErrUnknownTransactionType)

\* func (u *UnsignedTransaction) Deserialize(data []byte, skipValidation bool) (int, error),
\* from "advance to payload" on: data is at the payload length, u holds the inputs
\* and outputs already assigned.
DeserializePayload(u, data, bytesReadTotal) ==
    IF ~CanSlice(data, 0, MaxVarintLen64) THEN DecodePanic(u)
    ELSE
    Bind(ReadUvarint(Reslice(data, 0, MaxVarintLen64)), LAMBDA pl :
    IF pl.err # NoErr THEN Decoded(0, pl.err, u)
    ELSE IF pl.v = 0 THEN Decoded(bytesReadTotal + pl.n, NoErr, u)
    ELSE IF ~CanSlice(data, pl.n, data.len) THEN DecodePanic(u)
    ELSE IF Reslice(data, pl.n, data.len).len = 0 THEN DecodePanic(u)
    ELSE Decoded(bytesReadTotal + pl.n + pl.v, NoErr, u))

\* The same, from "advance to outputs" on: data is at the outputs' count.
DeserializeOutputs(u, data, bytesReadTotal, skipValidation) ==
    Bind(DeserializeArrayOfObjects(data, skipValidation, "OutputSelector",
                                   outputsArrayBound), LAMBDA outs :
    IF outs.panic THEN DecodePanic(u)
    ELSE IF outs.err # NoErr THEN Decoded(0, outs.err, u)
    ELSE IF ~skipValidation /\ ValidateOutputs(outs.seris) # NoErr
    THEN Decoded(0, ValidateOutputs(outs.seris), u)
    ELSE IF ~CanSlice(data, outs.n, data.len)
    THEN DecodePanic([u EXCEPT !.Outputs = outs.seris])
    ELSE DeserializePayload([u EXCEPT !.Outputs = outs.seris],
                            Reslice(data, outs.n, data.len), bytesReadTotal + outs.n))

\* The same, from its start.
UnsignedTransactionDeserialize(u, data, skipValidation) ==
    IF ~skipValidation /\ checkType(data, TransactionUnsigned) # NoErr
    THEN Decoded(0, checkType(data, TransactionUnsigned), u)
    ELSE IF ~CanSlice(data, OneByte, data.len) THEN DecodePanic(u)
    ELSE
    Bind(DeserializeArrayOfObjects(Reslice(data, OneByte, data.len), skipValidation,
                                   "InputSelector", inputsArrayBound), LAMBDA ins :
    IF ins.panic THEN DecodePanic(u)
    ELSE IF ins.err # NoErr THEN Decoded(0, ins.err, u)
    ELSE IF ~skipValidation /\ ValidateInputs(ins.seris) # NoErr
    THEN Decoded(0, ValidateInputs(ins.seris), u)
    ELSE IF ~CanSlice(data, OneByte + ins.n, data.len)
    THEN DecodePanic([u EXCEPT !.Inputs = ins.seris])
    ELSE DeserializeOutputs([u EXCEPT !.Inputs = ins.seris],
                            Reslice(data, OneByte + ins.n, data.len),
                            OneByte + ins.n, skipValidation))

\* u.Payload.Serialize(skipValidation): the payload is opaque; it holds the bytes and
\* the error its Serialize returns.
PayloadSerialize(p, skipValidation) == Encoded(MkSlice(p.data, 0), p.err)

\* The loop "for i := range seris": the bytes written, or the first error.
RECURSIVE SerializeAll(_, _, _)
SerializeAll(seris, skipValidation, i) ==
    IF i > Len(seris) THEN [bytes |-> <<>>, err |-> NoErr]
    ELSE
    Bind(SeriSerialize(seris[i], skipValidation), LAMBDA one :
    IF one.err # NoErr THEN [bytes |-> <<>>, err |-> one.err] ELSE
    Bind(SerializeAll(seris, skipValidation, i + 1), LAMBDA rest :
    IF rest.err # NoErr THEN rest
    ELSE [bytes |-> Bytes(one.data) \o rest.bytes, err |-> NoErr]))

\* The payload section Serialize writes (lines 211-231).
PayloadSection(payload, skipValidation) ==
    IF payload = Nil THEN <<0>>
    ELSE LET payloadSer == Bytes(PayloadSerialize(payload, skipValidation).data)
         IN payloadSer \o PutUvarint(Len(payloadSer)) \o payloadSer

\* func (u *UnsignedTransaction) Serialize, from "var b bytes.Buffer" on; slack is
\* the spare capacity of the bytes.Buffer whose bytes are returned.
SerializeBytes(u, skipValidation, slack) ==
    Bind(SerializeAll(u.Inputs, skipValidation, 1), LAMBDA ins :
    IF ins.err # NoErr THEN Encoded(NilSlice, ins.err) ELSE
    Bind(SerializeAll(u.Outputs, skipValidation, 1), LAMBDA outs :
    IF outs.err # NoErr THEN Encoded(NilSlice, outs.err)
    ELSE Encoded(MkSlice(<<TransactionUnsigned>>
                         \o PutUvarint(Len(u.Inputs)) \o ins.bytes
                         \o PutUvarint(Len(u.Outputs)) \o outs.bytes
                         \o PayloadSection(u.Payload, skipValidation), slack),
                 NoErr)))

\* A Serialize that leaves out the validation of the outputs.
UnsignedTransactionSerializeInputsOnly(u, skipValidation, slack) ==
    IF ~skipValidation /\ ValidateInputs(u.Inputs) # NoErr
    THEN Encoded(NilSlice, ValidateInputs(u.Inputs))
    ELSE SerializeBytes(u, skipValidation, slack)

\* func (u *UnsignedTransaction) Serialize(skipValidation bool) ([]byte, error)
UnsignedTransactionSerialize(u, skipValidation, slack) ==
    IF ~skipValidation /\ ValidateInputs(u.Inputs) # NoErr
    THEN Encoded(NilSlice, ValidateInputs(u.Inputs))
    ELSE IF ~skipValidation /\ ValidateOutputs(u.Outputs) # NoErr
    THEN Encoded(NilSlice, ValidateOutputs(u.Outputs))
    ELSE SerializeBytes(u, skipValidation, slack)

----------------------------------------------------------------------------
(* The wire layouts of the entities, which a caller's buffer may hold.     *)

\* [type:1][pubkey:32][signature:64]
WireEd25519Signature(e) == <<SignatureEd25519>> \o e.PublicKey \o e.Signature

RECURSIVE WireAll(_, _)
WireAll(seris, i) ==
    IF i > Len(seris) THEN <<>>
    ELSE Bytes(SeriSerialize(seris[i], TRUE).data) \o WireAll(seris, i + 1)

\* [count:varint][object]*
WireArray(seris) == PutUvarint(Len(seris)) \o WireAll(seris, 1)

\* [type:1][inputCount:varint][Input]*[outputCount:varint][Output]*[payloadLen:varint][payload bytes]
WireUnsignedTransaction(u) ==
    <<TransactionUnsigned>> \o WireArray(u.Inputs) \o WireArray(u.Outputs)
    \o (IF u.Payload = Nil THEN <<0>>
        ELSE PutUvarint(Len(u.Payload.data)) \o u.Payload.data)

Wire(e) ==
    IF e.kind = "Ed25519Signature" THEN WireEd25519Signature(e)
    ELSE WireUnsignedTransaction(e)

\* An entity that has a wire form: every component serializes without an error.
Encodable(e) ==
    IF e.kind = "Ed25519Signature" THEN TRUE
    ELSE IF e.kind # "UnsignedTransaction" THEN FALSE
    ELSE IF e.Payload = Nil THEN TRUE
    ELSE e.Payload.err = NoErr

----------------------------------------------------------------------------
(* The values the caller draws its entities and arguments from.            *)

Byte == 0..255
FillValues == {0, 1}
OutputIndexes == {0, 1}
SkipValidation == {FALSE, TRUE}
Slacks == {0, MaxSlack}

Signatures ==
    {[kind |-> "Ed25519Signature",
      PublicKey |-> Fill(PublicKeySize, a), Signature |-> Fill(SignatureSize, b)] :
        a \in FillValues, b \in FillValues}

UTXOInputs ==
    {[kind |-> "UTXOInput",
      TransactionID |-> Fill(TransactionIDLength, 0), TransactionOutputIndex |-> i] :
        i \in OutputIndexes}

\* Two deposits to the same address (one of amount 0) and one to another address.
SigLockedSingleDeposits ==
    {[kind |-> "SigLockedSingleDeposit",
      Address |-> Fill(Ed25519AddressBytesLength, d[1]), Amount |-> d[2]] :
        d \in {<<0, 0>>, <<0, 1>>, <<1, 1>>}}

Payloads ==
    {Nil, [kind |-> "Payload", data |-> <<>>, err |-> ErrPayloadSerialize]}
    \cup {[kind |-> "Payload", data |-> Fill(k, 7), err |-> NoErr] : k \in 1..MaxPayload}

SeqsUpTo(S, n) == UNION {[1..k -> S] : k \in 0..n}

UnsignedTransactions ==
    {[kind |-> "UnsignedTransaction", Inputs |-> is, Outputs |-> os, Payload |-> p] :
        is \in SeqsUpTo(UTXOInputs, MaxElems), os \in SeqsUpTo(SigLockedSingleDeposits, MaxElems),
        p \in Payloads}

Entities ==
    Signatures \cup {u \in UnsignedTransactions : Len(u.Inputs) + Len(u.Outputs) <= MaxElems}

RuleSet ==
    {NilArrayRules,
     ArrayRules(0, 0, TRUE, ErrInputsOrderViolatesLexicalOrder),
     ArrayRules(1, 1, FALSE, NoErr)}

----------------------------------------------------------------------------
(* The caller.                                                             *)

Init ==
    /\ ent = Nil
    /\ buf = NilSlice
    /\ recv = Nil
    /\ ret = NoResult
    /\ origin = "none"

\* The caller has filled no buffer and made no call yet.
Fresh == origin = "none" /\ ret.op = "none"

\* The caller constructs an entity.
New ==
    /\ ent = Nil /\ ret.op = "none"
    /\ ent' \in Entities
    /\ UNCHANGED <<buf, recv, ret, origin>>

CallSignatureSelector ==
    /\ ent = Nil /\ ret.op = "none"
    /\ \E typeByte \in Byte :
         LET r == SignatureSelector(typeByte)
         IN ret' = Result("SignatureSelector", FALSE, typeByte, 0, r.err, NilSlice,
                          r.inst, r.panic)
    /\ UNCHANGED <<ent, buf, recv, origin>>

CallTransactionSelector ==
    /\ ent = Nil /\ ret.op = "none"
    /\ \E typeByte \in Byte :
         LET r == TransactionSelector(typeByte)
         IN ret' = Result("TransactionSelector", FALSE, typeByte, 0, r.err, NilSlice,
                          r.inst, r.panic)
    /\ UNCHANGED <<ent, buf, recv, origin>>

\* Serialize on the instance SignatureSelector returned for SignatureWOTS.
CallWOTSSerialize ==
    /\ ret.op = "SignatureSelector" /\ ret.inst.kind = "WOTSSignature"
    /\ LET r == WOTSSignatureSerialize(ret.inst)
       IN ret' = Result("WOTSSignature.Serialize", FALSE, ret.arg, 0, r.err, r.data,
                        ret.inst, r.panic)
    /\ UNCHANGED <<ent, buf, recv, origin>>

\* Deserialize on the instance SignatureSelector returned for SignatureWOTS.
CallWOTSDeserialize ==
    /\ ret.op = "SignatureSelector" /\ ret.inst.kind = "WOTSSignature"
    /\ \E data \in {NilSlice, MkSlice(<<SignatureWOTS>>, 0)} :
         LET r == WOTSSignatureDeserialize(ret.inst, data)
         IN /\ ret' = Result("WOTSSignature.Deserialize", FALSE, ret.arg, r.n, r.err,
                             NilSlice, ret.inst, r.panic)
            /\ buf' = data
    /\ UNCHANGED <<ent, recv, origin>>

CallEd25519SignatureSerialize ==
    /\ ent.kind = "Ed25519Signature" /\ Fresh
    /\ LET r == Ed25519SignatureSerialize(ent)
       IN /\ ret' = Result("Serialize", FALSE, Nil, 0, r.err, r.data, Nil, r.panic)
          /\ buf' = r.data
    /\ recv' = Nil
    /\ origin' = "Serialize"
    /\ UNCHANGED ent

CallUnsignedTransactionSerialize ==
    /\ ent.kind = "UnsignedTransaction" /\ Fresh
    /\ \E skip \in SkipValidation, slack \in Slacks :
         LET r == UnsignedTransactionSerialize(ent, skip, slack)
         IN /\ ret' = Result("Serialize", skip, Nil, 0, r.err, r.data, Nil, r.panic)
            /\ buf' = r.data
            /\ origin' = IF r.err = NoErr /\ ~r.panic THEN "Serialize" ELSE "none"
    /\ recv' = Nil
    /\ UNCHANGED ent

\* The caller fills a buffer with the entity's wire layout.
WireEncode ==
    /\ Encodable(ent) /\ Fresh
    /\ \E slack \in Slacks : buf' = MkSlice(Wire(ent), slack)
    /\ ret' = NoResult
    /\ recv' = Nil
    /\ origin' = "Wire"
    /\ UNCHANGED ent

\* buf = buf[:k] for a k below the length.
Truncate ==
    /\ origin \in {"Serialize", "Wire"} /\ ret.op # "Deserialize"
    /\ \E k \in 0..(buf.len - 1) : buf' = Reslice(buf, 0, k)
    /\ ret' = NoResult
    /\ recv' = Nil
    /\ origin' = "Truncated"
    /\ UNCHANGED ent

\* buf = buf[:len(buf)+1], which Go allows within the capacity.
Extend ==
    /\ origin \in {"Serialize", "Wire"} /\ ret.op # "Deserialize"
    /\ buf.len < Cap(buf)
    /\ buf' = Reslice(buf, 0, buf.len + 1)
    /\ ret' = NoResult
    /\ recv' = Nil
    /\ origin' = "Extended"
    /\ UNCHANGED ent

\* edSig := &Ed25519Signature{}; edSig.Deserialize(buf)
CallEd25519SignatureDeserialize ==
    /\ ent.kind = "Ed25519Signature"
    /\ origin \in {"Serialize", "Wire", "Truncated", "Extended"}
    /\ LET r == Ed25519SignatureDeserialize(EmptyEd25519Signature, buf)
       IN /\ ret' = Result("Deserialize", FALSE, Nil, r.n, r.err, NilSlice, Nil, r.panic)
          /\ recv' = r.recv
    /\ UNCHANGED <<ent, buf, origin>>

\* tx := &UnsignedTransaction{}; tx.Deserialize(buf, skip)
CallUnsignedTransactionDeserialize ==
    /\ ent.kind = "UnsignedTransaction"
    /\ origin \in {"Serialize", "Wire", "Truncated", "Extended"}
    /\ \E skip \in SkipValidation :
         LET r == UnsignedTransactionDeserialize(EmptyUnsignedTransaction, buf, skip)
         IN /\ ret' = Result("Deserialize", skip, Nil, r.n, r.err, NilSlice, Nil, r.panic)
            /\ recv' = r.recv
    /\ UNCHANGED <<ent, buf, origin>>

\* The caller fills a buffer with the array layout of the transaction's inputs.
WireEncodeInputs ==
    /\ ent.kind = "UnsignedTransaction" /\ Fresh
    /\ buf' = MkSlice(WireArray(ent.Inputs), 0)
    /\ ret' = NoResult
    /\ recv' = Nil
    /\ origin' = "WireInputs"
    /\ UNCHANGED ent

CallDeserializeArrayOfObjects ==
    /\ origin = "WireInputs"
    /\ \E skip \in SkipValidation, rules \in RuleSet :
         LET r == DeserializeArrayOfObjects(buf, skip, "InputSelector", rules)
         IN /\ ret' = Result("DeserializeArrayOfObjects", skip, rules, r.n, r.err,
                             NilSlice, Nil, r.panic)
            /\ recv' = [kind |-> "Serializables", seris |-> r.seris]
    /\ UNCHANGED <<ent, buf, origin>>

Next ==
    \/ New
    \/ CallSignatureSelector
    \/ CallTransactionSelector
    \/ CallWOTSSerialize
    \/ CallWOTSDeserialize
    \/ CallEd25519SignatureSerialize
    \/ CallEd25519SignatureDeserialize
    \/ CallUnsignedTransactionSerialize
    \/ CallUnsignedTransactionDeserialize
    \/ WireEncode
    \/ Truncate
    \/ Extend
    \/ WireEncodeInputs
    \/ CallDeserializeArrayOfObjects

Spec == Init /\ [][Next]_vars

----------------------------------------------------------------------------
(* Properties.                                                             *)

\* buf holds the whole wire layout of ent (and nothing behind it).
HoldsWire == origin = "Wire" /\ Bytes(buf) = Wire(ent)

\* buf holds a prefix of the wire layout of ent that is strictly shorter than it.
HoldsStrictPrefix ==
    /\ origin = "Truncated"
    /\ Encodable(ent)
    /\ buf.len < Len(Wire(ent))
    /\ Bytes(buf) = SubSeq(Wire(ent), 1, buf.len)

EncodedBytes(seri) == Bytes(SeriSerialize(seri, TRUE).data)

\* Each element's bytes sort at or after (strictly after) those of the one before it.
NonDescending(seris) ==
    \A i \in 1..(Len(seris) - 1) :
        BytesCompare(EncodedBytes(seris[i]), EncodedBytes(seris[i + 1])) <= 0

StrictlyAscending(seris) ==
    \A i \in 1..(Len(seris) - 1) :
        BytesCompare(EncodedBytes(seris[i]), EncodedBytes(seris[i + 1])) < 0

DuplicateUTXORefs(inputs) ==
    \E i, j \in 1..Len(inputs) :
        /\ i < j
        /\ inputs[i].TransactionID = inputs[j].TransactionID
        /\ inputs[i].TransactionOutputIndex = inputs[j].TransactionOutputIndex

DuplicateAddresses(outputs) ==
    \E i, j \in 1..Len(outputs) : i < j /\ outputs[i].Address = outputs[j].Address

ZeroDeposit(outputs) == \E i \in 1..Len(outputs) : outputs[i].Amount = 0

\* C1: round trip: Deserialize of the bytes Serialize produced for an entity
\* succeeds and leaves the receiver equal to that entity.
C1_RoundTrip ==
    (ret.op = "Deserialize" /\ origin = "Serialize")
        => (~ret.panic /\ ret.err = NoErr /\ recv = ent)

\* C2: exact consumption: Deserialize of exactly the bytes of an entity's wire
\* layout succeeds and reports the length of that layout as consumed.
C2_ExactConsumption ==
    (ret.op = "Deserialize" /\ HoldsWire)
        => (~ret.panic /\ ret.err = NoErr /\ ret.n = Len(Wire(ent)))

\* C3: a Deserialize that returns successfully reports at most the length of
\* the buffer it was given as consumed.
C3_ConsumedWithinBuffer ==
    (ret.op \in {"Deserialize", "DeserializeArrayOfObjects"}
     /\ ~ret.panic /\ ret.err = NoErr)
        => ret.n <= buf.len

\* C4: truncation failure: Deserialize of a strict prefix of an entity's wire
\* layout returns ErrInvalidBytes or ErrDeserializationDataTooSmall; it neither
\* succeeds nor panics.
C4_TruncationFails ==
    (ret.op = "Deserialize" /\ HoldsStrictPrefix)
        => (~ret.panic
            /\ ret.err \in {ErrInvalidBytes, ErrDeserializationDataTooSmall})

\* C5: a selector returns a fresh empty instance and no error for each known
\* discriminant (transactions: 0; signatures: 0 and 1), and no instance and the
\* family's unknown-type error for every other one; it never panics.
C5_Selectors ==
    /\ ret.op = "TransactionSelector" =>
         /\ ~ret.panic
         /\ IF ret.arg = 0
            THEN ret.err = NoErr /\ ret.inst = EmptyUnsignedTransaction
            ELSE ret.err = ErrUnknownTransactionType /\ ret.inst = Nil
    /\ ret.op = "SignatureSelector" =>
         /\ ~ret.panic
         /\ IF ret.arg = 0 THEN ret.err = NoErr /\ ret.inst = EmptyWOTSSignature
            ELSE IF ret.arg = 1
            THEN ret.err = NoErr /\ ret.inst = EmptyEd25519Signature
            ELSE ret.err = ErrUnknownSignatureType /\ ret.inst = Nil

\* C5's case: SignatureSelector was called with the unknown discriminant 100.
C5_Witness ==
    /\ ret.op = "SignatureSelector" /\ ret.arg = 100
    /\ ret.err = ErrUnknownSignatureType /\ ret.inst = Nil

\* The last call decoded the wire layout of ent's inputs under a rule with
\* ElementBytesLexicalOrder set.
DecodedUnderLexicalOrder ==
    /\ ret.op = "DeserializeArrayOfObjects"
    /\ ~ret.arg.isNil /\ ret.arg.ElementBytesLexicalOrder

\* C6 as claimed: under ElementBytesLexicalOrder the array decode succeeds only
\* if every element's bytes sort strictly after those of the element before
\* it; a pair of equal elements is rejected with the order violation error.
C6_StrictOrder ==
    DecodedUnderLexicalOrder =>
        /\ ~ret.panic
        /\ IF StrictlyAscending(ent.Inputs) THEN ret.err = NoErr
           ELSE ret.err = ret.arg.ElementBytesLexicalOrderErr

\* C6 as amended: under ElementBytesLexicalOrder the array decode succeeds, and
\* returns the elements, exactly if every element's bytes sort at or after those
\* of the element before it; a descending pair is rejected with the order
\* violation error, a pair of equal elements is not.
C6_NonDescendingOrder ==
    DecodedUnderLexicalOrder =>
        /\ ~ret.panic
        /\ IF NonDescending(ent.Inputs)
           THEN ret.err = NoErr /\ recv.seris = ent.Inputs /\ ret.n = buf.len
           ELSE ret.err = ret.arg.ElementBytesLexicalOrderErr /\ recv.seris = <<>>

\* C6's case: two equal adjacent elements were decoded under the rule.
C6_Witness ==
    /\ DecodedUnderLexicalOrder
    /\ Len(ent.Inputs) = 2 /\ ent.Inputs[1] = ent.Inputs[2]
    /\ ret.err = NoErr

\* The last call was a validating Deserialize of the whole wire layout of ent.
ValidatingDecodeOfWire ==
    ret.op = "Deserialize" /\ ~ret.skip /\ HoldsWire /\ ent.kind = "UnsignedTransaction"

\* C7 as claimed: a validating Deserialize of a buffer whose inputs hold the same
\* UTXO reference twice fails with ErrInputUTXORefsNotUnique, and of one whose
\* outputs hold the same address twice with ErrOutputAddrNotUnique.
C7_Uniqueness ==
    ValidatingDecodeOfWire =>
        /\ DuplicateUTXORefs(ent.Inputs)
             => (~ret.panic /\ ret.err = ErrInputUTXORefsNotUnique)
        /\ (~DuplicateUTXORefs(ent.Inputs) /\ NonDescending(ent.Inputs)
            /\ DuplicateAddresses(ent.Outputs))
             => (~ret.panic /\ ret.err = ErrOutputAddrNotUnique)

\* C7 as amended: the same for buffers whose inputs (and, for the outputs' case,
\* outputs) are in non-descending byte order; the order check comes first.
C7_UniquenessOfOrdered ==
    ValidatingDecodeOfWire =>
        /\ (NonDescending(ent.Inputs) /\ DuplicateUTXORefs(ent.Inputs))
             => (~ret.panic /\ ret.err = ErrInputUTXORefsNotUnique)
        /\ (~DuplicateUTXORefs(ent.Inputs) /\ NonDescending(ent.Inputs)
            /\ NonDescending(ent.Outputs) /\ DuplicateAddresses(ent.Outputs))
             => (~ret.panic /\ ret.err = ErrOutputAddrNotUnique)

\* C7's case: a buffer with a duplicate UTXO reference was decoded with validation.
C7_Witness ==
    /\ ValidatingDecodeOfWire
    /\ DuplicateUTXORefs(ent.Inputs)
    /\ ret.err = ErrInputUTXORefsNotUnique

\* The last call was a validating Serialize of the transaction ent.
ValidatingSerialize ==
    ret.op = "Serialize" /\ ~ret.skip /\ ent.kind = "UnsignedTransaction"

\* C8 as claimed: a validating Serialize of a transaction with a duplicate UTXO
\* reference, a duplicate output address or an output of amount 0 returns an
\* error and no bytes.
C8_NoInvalidEncoded ==
    (ValidatingSerialize
     /\ (DuplicateUTXORefs(ent.Inputs) \/ DuplicateAddresses(ent.Outputs)
         \/ ZeroDeposit(ent.Outputs)))
        => (~ret.panic /\ ret.err # NoErr /\ ret.data = NilSlice)

\* C8 as amended: a validating Serialize of a transaction with a duplicate UTXO
\* reference or a duplicate output address returns that uniqueness error and no
\* bytes.
C8_NoDuplicatesEncoded ==
    /\ (ValidatingSerialize /\ DuplicateUTXORefs(ent.Inputs))
         => (~ret.panic /\ ret.err = ErrInputUTXORefsNotUnique
             /\ ret.data = NilSlice /\ buf = NilSlice)
    /\ (ValidatingSerialize /\ ~DuplicateUTXORefs(ent.Inputs)
        /\ DuplicateAddresses(ent.Outputs))
         => (~ret.panic /\ ret.err = ErrOutputAddrNotUnique
             /\ ret.data = NilSlice /\ buf = NilSlice)

\* C8's case: a transaction with a duplicate output address met a validating
\* Serialize.
C8_Witness ==
    /\ ValidatingSerialize
    /\ ~DuplicateUTXORefs(ent.Inputs) /\ DuplicateAddresses(ent.Outputs)
    /\ ret.err = ErrOutputAddrNotUnique

\* C9: Serialize and Deserialize of the WOTS variant return an "unimplemented"
\* error and do not panic.
C9_WOTSUnimplemented ==
    ret.op \in {"WOTSSignature.Serialize", "WOTSSignature.Deserialize"}
        => (~ret.panic /\ ret.err = "ErrUnimplemented")

\* C10: Serialize of a transaction whose components serialize writes the wire
\* layout: type byte, input count, inputs, output count, outputs, and then a
\* zero byte without a payload, else the payload's length and its bytes once.
C10_WireLayout ==
    (ret.op = "Serialize" /\ ent.kind = "UnsignedTransaction" /\ Encodable(ent)
     /\ ~ret.panic /\ ret.err = NoErr)
        => Bytes(ret.data) = WireUnsignedTransaction(ent)

\* The last call was Deserialize on a fresh transaction and it returned an error.
TransactionDecodeFailed ==
    /\ ret.op = "Deserialize" /\ ent.kind = "UnsignedTransaction"
    /\ ~ret.panic /\ ret.err # NoErr

SerializeOfFailingComponent ==
    /\ ret.op = "Serialize" /\ ent.kind = "UnsignedTransaction"
    /\ ~Encodable(ent)

\* C12: failure propagation on encode: Serialize of a transaction one of whose
\* components fails to serialize returns an error and no bytes; without a
\* validation failure before it, the error is the component's.
C12_EncodeFailurePropagates ==
    SerializeOfFailingComponent =>
        /\ ~ret.panic
        /\ ret.err # NoErr
        /\ ret.data = NilSlice
        /\ (ret.skip \/ (ValidateInputs(ent.Inputs) = NoErr
                         /\ ValidateOutputs(ent.Outputs) = NoErr))
             => ret.err = ErrPayloadSerialize

====
